---- MODULE Spec2Model ----
(***************************************************************************)
(* Model of the StateMachine / State utility of src/src/util.js.           *)
(*                                                                         *)
(* A machine owns a registry of states, a current state key, a stack of    *)
(* previous keys, a queue of one-shot callbacks and the `transitioning`    *)
(* flag.  `transition` is an async function: it runs synchronously up to   *)
(* its first `await` and is resumed later, once per awaited hook.  Every   *)
(* call of `transition` that passes the registry check is therefore a      *)
(* task with a position (pc); tasks resume in any order because a hook     *)
(* may suspend for as long as it likes.                                    *)
(*                                                                         *)
(* The specifications share the operators.  In Spec (step and              *)
(* transition), SpecHooks (transition with the four lifecycle callbacks),  *)
(* SpecCallbacks (the nextStep queue), SpecStack (push, pop, wait) and     *)
(* SpecLive (Spec with a followed transition and fairness) the hooks       *)
(* return normally and the initial state is registered.  SpecErrors lets   *)
(* the hooks of a transition raise; SpecStuck adds init raising and        *)
(* callbacks queued once the flag is left set; SpecRegistry starts from    *)
(* any initialState and lets addStates extend the registry.                *)
(***************************************************************************)
EXTENDS Integers, Sequences, FiniteSets, Bags, TLC

\* ---------------------------------------------------------------- bounds
MaxPending == 2
MaxCallbacks == 3
MaxStack == 2
MaxWaits == 1
MaxBadReturns == 1
MaxStuckCallbacks == 1

\* ------------------------------------------------------------- vocabulary
NULL == "null"
Keys == {"A", "B"}
Unregistered == "X"
Names == Keys \cup {Unregistered}

VARIABLES
  initialState,       \* this.initialState
  possibleStates,     \* the keys of this.possibleStates
  state,              \* this.state
  initialized,        \* State.initialized of every registered state
  stateStack,         \* this.stateStack
  transitioning,      \* this.transitioning
  nextStepCallbacks,  \* this.nextStepCallbacks (ids of queued callbacks)
  tasks,              \* pending calls of the async transition()
  handles,            \* promises returned by pushAndWait and their listeners
  initCalls,          \* history: how often init was called, per state
  cbInfo,             \* history: one record per callback ever created
  roundTrip,          \* history: a pushTransition and the popTransition called next
  entered,            \* history: the state entered and not yet exited
  log,                \* history: the calls made by the last operation, in order
  lastCall            \* history: the last operation and its outcome

vars == <<initialState, possibleStates, state, initialized, stateStack, transitioning, nextStepCallbacks,
          tasks, handles, initCalls, cbInfo, roundTrip, entered,
          log, lastCall>>

\* The machine as one value, so that a method calling another composes.
Cur ==
  [initialState |-> initialState, possibleStates |-> possibleStates,
   state |-> state, initialized |-> initialized, stateStack |-> stateStack,
   transitioning |-> transitioning, nextStepCallbacks |-> nextStepCallbacks,
   tasks |-> tasks, handles |-> handles, initCalls |-> initCalls,
   cbInfo |-> cbInfo, log |-> <<>>, result |-> "ok"]

\* No pushTransition immediately followed by popTransition is under way.
Idle == [phase |-> "idle", key |-> NULL, stack |-> <<>>]

\* The state whose handleEntered was called and whose handleExited was not
\* yet, NULL when there is none, as it is after the call ev; "unbalanced"
\* from the first call on that exits another state than that one, or
\* enters a state while a different one has not been exited.
EnteredAfter(e, ev) ==
  CASE e = "unbalanced" -> e
    [] ev[1] = "handleEntered" ->
         IF e \in {NULL, ev[2]} THEN ev[2] ELSE "unbalanced"
    [] ev[1] = "handleExited" ->
         IF e = ev[2] THEN NULL ELSE "unbalanced"
    [] OTHER -> e

RECURSIVE EnteredAfterAll(_, _)
EnteredAfterAll(e, l) ==
  IF l = <<>> THEN e ELSE EnteredAfterAll(EnteredAfter(e, Head(l)), Tail(l))

Set(m, op, arg) ==
  /\ initialState' = m.initialState
  /\ possibleStates' = m.possibleStates
  /\ state' = m.state
  /\ initialized' = m.initialized
  /\ stateStack' = m.stateStack
  /\ transitioning' = m.transitioning
  /\ nextStepCallbacks' = m.nextStepCallbacks
  /\ tasks' = m.tasks
  /\ handles' = m.handles
  /\ initCalls' = m.initCalls
  /\ cbInfo' = m.cbInfo
  /\ log' = m.log
  /\ lastCall' = [op |-> op, arg |-> arg, result |-> m.result]
  /\ entered' = EnteredAfterAll(entered, m.log)
  /\ roundTrip' =
       CASE op = "resume" -> roundTrip
         [] op = "pushTransition" ->
              [phase |-> "pushed", key |-> state, stack |-> stateStack]
         [] op = "popTransition" /\ roundTrip.phase = "pushed" ->
              [roundTrip EXCEPT !.phase = "popped"]
         [] OTHER -> Idle

\* Histories count calls as never, once, repeated.
Again(n) == IF n = "never" THEN "once" ELSE "repeated"

\* A call of a state method or of a lifecycle callback, as it is observed.
Ev(op, key, arg) == <<op, key, arg>>
Called(m, op, key, arg) == [m EXCEPT !.log = Append(@, Ev(op, key, arg))]

\* A hook called by a transition.
Hook(m, op, key) == Called(m, op, key, NULL)

\* The running transition t suspends at an await: it joins the pending ones.
Await(m, t, pc) == [m EXCEPT !.tasks = @ (+) SetToBag({[t EXCEPT !.pc = pc]})]

\* -------------------------------------------------------------- registry
\* addStates(states): Object.assign adds the keys and replaces the objects
\* of keys already there; the State objects handed in are fresh ones.
addStates(m, states) ==
  LET keys == m.possibleStates \cup states
  IN  [m EXCEPT !.possibleStates = keys,
                !.initialized = [k \in keys |->
                                   IF k \in states THEN FALSE ELSE @[k]],
                !.initCalls = [k \in keys |->
                                 IF k \in DOMAIN @ THEN @[k] ELSE "never"]]

\* ------------------------------------------------------------ transition
\* newState in this.possibleStates
IsRegistered(m, newState) == newState \in m.possibleStates

\* Mutant: the function returns without clearing the flag.
Finish_KeepFlag(m, t) == [m EXCEPT !.result = "done"]

\* this.transitioning = false; the async function returns.
Finish(m, t) == [m EXCEPT !.transitioning = FALSE, !.result = "done"]

\* if (postEnter) await postEnter(...)
AfterHandleEntered(m, t) ==
  IF t.cbs
    THEN Await(Hook(m, "postEnter", t.target), t, "postEnter")
    ELSE Finish(m, t)

\* await stateObj.handleEntered(...): stateObj was bound to the target.
CallHandleEntered(m, t) ==
  Await(Hook(m, "handleEntered", t.target), t, "handleEntered")

\* Mutant: init is called but the state is never marked initialized.
InitOnce_NoMark(m, k) ==
  IF ~m.initialized[k]
    THEN [Hook(m, "init", k) EXCEPT !.initCalls[k] = Again(@)]
    ELSE m

\* if (!stateObj.initialized) { stateObj.init(...); stateObj.initialized = true; }
InitOnce(m, k) ==
  IF ~m.initialized[k]
    THEN [Hook(m, "init", k) EXCEPT !.initCalls[k] = Again(@),
                                    !.initialized[k] = TRUE]
    ELSE m

\* this.state = newState, then the enter half up to its first await.
EnterPhase(m, t) ==
  LET k == t.target
      m1 == [Called(m, "state=", k, m.state) EXCEPT !.state = k]
      m2 == InitOnce(m1, k)
  IN  IF t.cbs
        THEN Await(Hook(m2, "preEnter", k), t, "preEnter")
        ELSE CallHandleEntered(m2, t)

\* if (postExit) await postExit(...)
AfterHandleExited(m, t) ==
  IF t.cbs
    THEN Await(Hook(m, "postExit", m.state), t, "postExit")
    ELSE EnterPhase(m, t)

\* await this.possibleStates[this.state].handleExited(...): the state that
\* is current when the call is made.  When the current state is no key the
\* property read throws and the transition ends there, rejected.
CallHandleExited(m, t) ==
  IF IsRegistered(m, m.state)
    THEN Await(Hook(m, "handleExited", m.state), t, "handleExited")
    ELSE [m EXCEPT !.result = "failed"]

\* if (this.state) { if (preExit) await preExit(...); ... }
ExitPhase(m, t) ==
  IF m.state # NULL
    THEN IF t.cbs
           THEN Await(Hook(m, "preExit", m.state), t, "preExit")
           ELSE CallHandleExited(m, t)
    ELSE EnterPhase(m, t)

\* The continuation of the transition t after the await it was suspended
\* at; m no longer counts t among the pending ones.
Continue(m, t) ==
  CASE t.pc = "preExit" -> CallHandleExited(m, t)
    [] t.pc = "handleExited" -> AfterHandleExited(m, t)
    [] t.pc = "postExit" -> EnterPhase(m, t)
    [] t.pc = "preEnter" -> CallHandleEntered(m, t)
    [] t.pc = "handleEntered" -> AfterHandleEntered(m, t)
    [] t.pc = "postEnter" -> Finish(m, t)

\* The pending transitions, none of them running alone any more.
Overlapped(b) ==
  LET NotAlone(t) == [t EXCEPT !.alone = FALSE]
  IN  BagOfAll(NotAlone, b)

\* The task of a new call of transition.  `alone` and `watched` are
\* history: whether no other call was pending when it started, and whether
\* it is the call whose progress is followed.
NewTask(m, newState, cbs) ==
  [target |-> newState, cbs |-> cbs, pc |-> "start",
   alone |-> m.tasks = EmptyBag, watched |-> FALSE]

\* this.transitioning = true
Begin(m) ==
  [m EXCEPT !.transitioning = TRUE, !.tasks = Overlapped(@), !.result = "pending"]

\* The pending transition t is the one whose progress is followed.
Watch(m, t) ==
  [m EXCEPT !.tasks = (@ (-) SetToBag({t}))
                        (+) SetToBag({[t EXCEPT !.watched = TRUE]})]

\* Mutant: the flag is raised before the registry check.
transition_FlagBeforeCheck(m, newState, cbs) ==
  IF ~IsRegistered(m, newState)
    THEN [m EXCEPT !.transitioning = TRUE, !.result = "rejected"]
    ELSE ExitPhase(Begin(m), NewTask(m, newState, cbs))

\* transition(newState, options), from its call to its first await.  The
\* function is async: `throw Error(...)` for an unregistered name rejects
\* the returned promise.
transition(m, newState, cbs) ==
  IF ~IsRegistered(m, newState)
    THEN [m EXCEPT !.result = "rejected"]
    ELSE ExitPhase(Begin(m), NewTask(m, newState, cbs))

\* Mutant: the flag is cleared when a hook fails, as by a try/finally.
Reject_ClearsFlag(m, t) ==
  [Called(m, "throws", t.target, t.pc) EXCEPT !.result = "failed",
                                              !.transitioning = FALSE]

\* The hook the transition t awaits raises, or the promise it returned is
\* rejected: the async function ends at that await with its own promise
\* rejected, and `this.transitioning = false` is never reached.  m no
\* longer counts t among the pending ones.
Reject(m, t) ==
  [Called(m, "throws", t.target, t.pc) EXCEPT !.result = "failed"]

\* The enter half of t when init raises: state has been assigned, init
\* is called and throws, `stateObj.initialized = true` is not reached.
InitRaises(m, t) ==
  LET k == t.target
      m1 == [Called(m, "state=", k, m.state) EXCEPT !.state = k]
      m2 == [Hook(m1, "init", k) EXCEPT !.initCalls[k] = Again(@)]
  IN  Reject(m2, [t EXCEPT !.pc = "init"])

\* The transitions that the call leading from m to m1 has started.
Started(m, m1) == BagToSet(m1.tasks (-) Overlapped(m.tasks))

\* ------------------------------------------------------------- push / pop
\* Mutant: the target is pushed instead of the current state.
pushTransition_PushTarget(m, newState, cbs) ==
  transition([m EXCEPT !.stateStack = Append(@, newState)], newState, cbs)

\* this.stateStack.push(this.state); this.transition(newState, args);
pushTransition(m, newState, cbs) ==
  transition([m EXCEPT !.stateStack = Append(@, m.state)], newState, cbs)

\* Mutant: the listener resolves on any pop, whatever depth it reports.
handler_AnyDepth(h, newStackLength) ==
  [h EXCEPT !.listening = FALSE, !.resolved = Again(@),
            !.resolvedBy = newStackLength]

\* The listener installed by pushAndWait, called with the reported depth.
handler(h, newStackLength) ==
  IF newStackLength = h.depth
    THEN [h EXCEPT !.listening = FALSE, !.resolved = Again(@),
                   !.resolvedBy = newStackLength]
    ELSE [h EXCEPT !.heard = TRUE]

\* this.emit('popTransition', n): every listener still installed is called.
emit(m, n) ==
  LET Notify(h) == IF h.listening THEN handler(h, n) ELSE h
  IN  [Called(m, "emit", ToString(n), NULL) EXCEPT !.handles = BagOfAll(Notify, @)]

\* pushAndWait: capture the depth, install the listener, then push.
pushAndWait(m, newState, cbs) ==
  LET h == [depth |-> Len(m.stateStack), listening |-> TRUE,
            resolved |-> "never", resolvedBy |-> -1, heard |-> FALSE]
  IN  pushTransition([m EXCEPT !.handles = @ (+) SetToBag({h})], newState, cbs)

\* Mutant: no check of the stack; popping an empty array yields undefined.
popTransition_NoGuard(m) ==
  LET top == IF Len(m.stateStack) < 1 THEN NULL ELSE m.stateStack[Len(m.stateStack)]
      m1 == [m EXCEPT !.stateStack = SubSeq(@, 1, Len(@) - 1)]
      m2 == transition(m1, top, FALSE)
  IN  emit(m2, Len(m2.stateStack))

\* popTransition: throws on an empty stack, else pops, starts the
\* transition and emits the new depth.
popTransition(m) ==
  IF Len(m.stateStack) < 1
    THEN [m EXCEPT !.result = "throws"]
    ELSE LET top == m.stateStack[Len(m.stateStack)]
             m1 == [m EXCEPT !.stateStack = SubSeq(@, 1, Len(@) - 1)]
             m2 == transition(m1, top, FALSE)
         IN  emit(m2, Len(m2.stateStack))

\* --------------------------------------------------------------- nextStep
\* A callback object; a "reg" callback calls nextStep(child) when it runs.
NewCallback(kind, child) ==
  [kind |-> kind, child |-> child, queued |-> "never", during |-> FALSE,
   stepsSince |-> "never", runs |-> "never", ranAfter |-> "never"]

\* this.nextStepCallbacks.push(callback)
nextStep(m, id, during) ==
  [m EXCEPT !.nextStepCallbacks = Append(@, id),
            !.cbInfo[id].queued = Again(@),
            !.cbInfo[id].during = during]

\* nextStep called with a callback that did not exist before.
nextStepNew(m, kind, during) ==
  LET id == Len(m.cbInfo) + 1
      m1 == IF kind = "reg"
              THEN [m EXCEPT !.cbInfo = @ \o <<NewCallback("reg", id + 1),
                                                NewCallback("plain", 0)>>]
              ELSE [m EXCEPT !.cbInfo = Append(@, NewCallback("plain", 0))]
  IN  nextStep(m1, id, during)

CallbackCost(kind) == IF kind = "reg" THEN 2 ELSE 1

\* ------------------------------------------------------------------- step
\* Mutant: the bootstrap enters the initial state without initializing it.
Bootstrap_NoInit(m) ==
  IF m.state = NULL
    THEN Called([m EXCEPT !.state = m.initialState], "handleEntered",
                m.initialState, NULL)
    ELSE m

\* if (this.state === null) { state = initialState; init(); handleEntered(); }
\* An initialState that is no key makes possibleStates[this.state]
\* undefined: reading init of it throws, after state was assigned.
Bootstrap(m) ==
  IF m.state = NULL
    THEN LET k == m.initialState
             m1 == [Called(m, "init", k, NULL) EXCEPT !.state = k,
                                                      !.initCalls[k] = Again(@)]
         IN  IF IsRegistered(m, k)
               THEN Called(m1, "handleEntered", k, NULL)
               ELSE [m EXCEPT !.state = k, !.result = "throws"]
    ELSE m

\* callback(...stateArgs, ...stepArgs)
RunCallback(m, id) ==
  LET m1 == [Called(m, "callback", ToString(id), NULL) EXCEPT
               !.cbInfo[id].runs = Again(@),
               !.cbInfo[id].ranAfter = m.cbInfo[id].stepsSince]
  IN  IF m.cbInfo[id].kind = "reg"
        THEN nextStep(m1, m.cbInfo[id].child, TRUE)
        ELSE m1

\* for (const callback of this.nextStepCallbacks): the iteration is over
\* the live array, so it also reaches what a callback appends meanwhile.
RECURSIVE DrainFrom(_, _)
DrainFrom(m, i) ==
  IF i > Len(m.nextStepCallbacks)
    THEN m
    ELSE DrainFrom(RunCallback(m, m.nextStepCallbacks[i]), i + 1)

\* Mutant: the callbacks run but the queue is not cleared.
Drain_KeepQueue(m) ==
  IF Len(m.nextStepCallbacks) > 0
    THEN DrainFrom(m, 1)
    ELSE m

\* if (length > 0) { for (...) callback(...); this.nextStepCallbacks = []; }
Drain(m) ==
  IF Len(m.nextStepCallbacks) > 0
    THEN [DrainFrom(m, 1) EXCEPT !.nextStepCallbacks = <<>>]
    ELSE m

\* while (!this.transitioning) { newState = execute(); if (newState)
\* transition(newState, ...stepArgs) else break; }   rets are the values
\* the successive execute calls return (nothing once exhausted); reg: the
\* first execute call registers a nextStep callback.  A current state that
\* is no key has no execute to call: the step throws.
RECURSIVE ExecLoop(_, _, _)
ExecLoop(m, rets, reg) ==
  IF m.transitioning
    THEN m
    ELSE IF ~IsRegistered(m, m.state)
    THEN [m EXCEPT !.result = "throws"]
    ELSE LET ret == IF rets = <<>> THEN NULL ELSE Head(rets)
             m1 == Called(m, "execute", m.state, ret)
             m2 == IF reg THEN nextStepNew(m1, "plain", TRUE) ELSE m1
         IN  IF ret # NULL
               THEN ExecLoop(transition(m2, ret, FALSE), Tail(rets), FALSE)
               ELSE m2

step(m, rets, reg) ==
  LET m0 == [m EXCEPT !.cbInfo = [j \in 1..Len(@) |->
                IF @[j].queued = "never" THEN @[j]
                ELSE [@[j] EXCEPT !.stepsSince = Again(@)]]]
      m1 == Bootstrap(m0)
      m2 == IF m1.result = "throws" THEN m1 ELSE ExecLoop(Drain(m1), rets, reg)
  IN  IF m2.result = "throws" THEN m2 ELSE [m2 EXCEPT !.result = "returned"]

\* step() when the first hook of the transition it starts raises at once:
\* transition is async, so the error rejects the promise that step drops;
\* the loop then sees transitioning true and step returns normally.
stepRaising(m, rets, t) ==
  LET m1 == step(m, rets, FALSE)
      m2 == Reject([m1 EXCEPT !.tasks = @ (-) SetToBag({t})], t)
  IN  [m2 EXCEPT !.result = m1.result]

\* What execute may return over one step: unregistered names, then either
\* nothing or a registered key.
RECURSIVE Bad(_)
Bad(n) == IF n = 0 THEN <<>> ELSE <<Unregistered>> \o Bad(n - 1)
ExecuteScripts ==
  {Bad(n) \o <<f>> : n \in 0..MaxBadReturns, f \in Keys \cup {NULL}}

\* ---------------------------------------------------------------- actions
\* new StateMachine(k, states), every state a fresh State object.
Constructed(k, states) ==
  /\ initialState = k
  /\ possibleStates = states
  /\ state = NULL
  /\ initialized = [j \in states |-> FALSE]
  /\ stateStack = <<>>
  /\ transitioning = FALSE
  /\ nextStepCallbacks = <<>>
  /\ tasks = EmptyBag
  /\ handles = EmptyBag
  /\ initCalls = [j \in states |-> "never"]
  /\ cbInfo = <<>>
  /\ roundTrip = Idle
  /\ entered = NULL
  /\ log = <<>>
  /\ lastCall = [op |-> "new", arg |-> k, result |-> "ok"]

\* The machine of the game: the initial state is one of the registered ones.
Init == Constructed("A", Keys)

\* A call that starts a transition task needs room for it.
Budget(k) == k \in possibleStates => BagCardinality(tasks) < MaxPending

\* step(), the states' execute leaving the machine alone.
Step ==
  /\ \E rets \in ExecuteScripts :
       /\ Budget(rets[Len(rets)])
       /\ Set(step(Cur, rets, FALSE), "step", NULL)

\* The step() that bootstraps the machine, execute returning nothing.
BootstrapStep ==
  /\ state = NULL
  /\ Set(step(Cur, <<NULL>>, FALSE), "step", NULL)

\* step(), the first execute call registering a nextStep callback.
StepRegistering ==
  /\ Len(cbInfo) < MaxCallbacks
  /\ \E rets \in ExecuteScripts :
       /\ Budget(rets[Len(rets)])
       /\ Set(step(Cur, rets, TRUE), "step", NULL)

NextStep ==
  \E kind \in {"plain", "reg"} :
    /\ Len(cbInfo) + CallbackCost(kind) <= MaxCallbacks
    /\ Set(nextStepNew(Cur, kind, FALSE), "nextStep", kind)

\* transition(newState) without lifecycle callbacks.
Transition ==
  \E k \in Names :
    /\ Budget(k)
    /\ Set(transition(Cur, k, FALSE), "transition", k)

\* transition(newState, {preExit, postExit, preEnter, postEnter}).
TransitionWithCallbacks ==
  \E k \in Names :
    /\ Budget(k)
    /\ Set(transition(Cur, k, TRUE), "transition", k)

PushTransition ==
  \E k \in Names :
    /\ Budget(k)
    /\ Len(stateStack) < MaxStack
    /\ Set(pushTransition(Cur, k, FALSE), "pushTransition", k)

PushAndWait ==
  \E k \in Keys :
    /\ Budget(k)
    /\ Len(stateStack) < MaxStack
    /\ BagCardinality(handles) < MaxWaits
    /\ Set(pushAndWait(Cur, k, FALSE), "pushAndWait", k)

PopTransition ==
  /\ Len(stateStack) > 0 => Budget(stateStack[Len(stateStack)])
  /\ Set(popTransition(Cur), "popTransition", NULL)

\* step() starting a transition whose first hook raises when called.
StepRaising ==
  /\ ~transitioning
  /\ \E rets \in ExecuteScripts :
       LET m1 == step(Cur, rets, FALSE)
       IN  /\ m1.transitioning
           /\ \E t \in Started(Cur, m1) :
                Set(stepRaising(Cur, rets, t), "step", NULL)

\* transition(newState) whose first hook raises when called.
TransitionRaising ==
  \E k \in possibleStates :
    LET m1 == transition(Cur, k, FALSE)
    IN  /\ m1.result = "pending"
        /\ \E t \in Started(Cur, m1) :
             Set(Reject([m1 EXCEPT !.tasks = @ (-) SetToBag({t})], t),
                 "transition", k)

\* The hook a suspended transition awaits fails instead of completing.
ResumeRaising ==
  \E t \in BagToSet(tasks) :
    Set(Reject([Cur EXCEPT !.tasks = @ (-) SetToBag({t})], t), "resume", t.target)

\* nextStep(callback) on a machine left with the flag set and no
\* transition in flight.
NextStepStuck ==
  /\ transitioning
  /\ tasks = EmptyBag
  /\ Len(cbInfo) < MaxStuckCallbacks
  /\ Set(nextStepNew(Cur, "plain", FALSE), "nextStep", "plain")

\* A suspended transition resumes into its enter half and init raises.
ResumeInitRaising ==
  \E t \in BagToSet(tasks) :
    /\ t.pc = "postExit" \/ (t.pc = "handleExited" /\ ~t.cbs)
    /\ ~initialized[t.target]
    /\ Set(InitRaises([Cur EXCEPT !.tasks = @ (-) SetToBag({t})], t),
           "resume", t.target)

\* addStates({k: new State()}) with a key not yet registered.
AddStates ==
  \E k \in Names \ possibleStates :
    Set(addStates(Cur, {k}), "addStates", k)

\* A suspended transition is resumed after the hook it awaits.
Resume ==
  \E t \in BagToSet(tasks) :
    Set(Continue([Cur EXCEPT !.tasks = @ (-) SetToBag({t})], t), "resume", t.target)

\* The transition protocol driven by step and by direct calls.
Next ==
  \/ Step
  \/ Transition
  \/ Resume

Spec == Init /\ [][Next]_vars

\* The same with the four lifecycle callbacks supplied.
NextHooks ==
  \/ BootstrapStep
  \/ TransitionWithCallbacks
  \/ Resume

SpecHooks == Init /\ [][NextHooks]_vars

\* The per-step callback queue.
NextCallbacks ==
  \/ Step
  \/ StepRegistering
  \/ NextStep
  \/ Resume

SpecCallbacks == Init /\ [][NextCallbacks]_vars

\* The push/pop stack.
NextStack ==
  \/ BootstrapStep
  \/ PushTransition
  \/ PushAndWait
  \/ PopTransition
  \/ Resume

SpecStack == Init /\ [][NextStack]_vars

\* transition(newState), the call whose progress is followed from then on.
TransitionWatched ==
  /\ \A t \in BagToSet(tasks) : ~t.watched
  /\ \E k \in possibleStates :
       LET m1 == transition(Cur, k, FALSE)
       IN  /\ Budget(k)
           /\ \E t \in Started(Cur, m1) :
                Set(Watch(m1, t), "transition", k)

\* The followed transition is resumed after the hook it awaits.
ResumeWatched ==
  \E t \in BagToSet(tasks) :
    /\ t.watched
    /\ Set(Continue([Cur EXCEPT !.tasks = @ (-) SetToBag({t})], t),
           "resume", t.target)

\* Every hook returns: all that is required of the hooks is that those of
\* the followed transition eventually complete.
NextLive ==
  \/ Step
  \/ Transition
  \/ TransitionWatched
  \/ Resume

SpecLive == Init /\ [][NextLive]_vars /\ WF_vars(ResumeWatched)

\* Hooks that may raise.
NextErrors ==
  \/ Step
  \/ StepRaising
  \/ Transition
  \/ TransitionRaising
  \/ Resume
  \/ ResumeRaising

SpecErrors == Init /\ [][NextErrors]_vars

\* Steps and their callbacks around transitions whose hooks may raise.
NextStuck ==
  \/ Step
  \/ StepRaising
  \/ NextStepStuck
  \/ Transition
  \/ TransitionRaising
  \/ Resume
  \/ ResumeRaising
  \/ ResumeInitRaising

SpecStuck == Init /\ [][NextStuck]_vars

\* Any machine the constructor accepts: initialState is not checked
\* against the registry.
InitAny == \E k \in Names : Constructed(k, Keys)

\* Every method that assigns state, on a registry that may grow.
NextRegistry ==
  \/ Step
  \/ Transition
  \/ PushTransition
  \/ PopTransition
  \/ AddStates
  \/ Resume

SpecRegistry == InitAny /\ [][NextRegistry]_vars

\* ================================================================ claims
Positions(l) == 1..Len(l)

\* ----------------------------------------------------------------- C1
\* The calls of a bootstrapping step begin with init then handleEntered of
\* the initial state, and neither is called again in that step.
BootstrapOrder(l) ==
  /\ Len(l) >= 2
  /\ l[1] = Ev("init", initialState, NULL)
  /\ l[2] = Ev("handleEntered", initialState, NULL)
  /\ \A i \in 3..Len(l) : l[i][1] \notin {"init", "handleEntered"}

\* C1 as stated: the first step() of a fresh machine calls init once, then
\* handleEntered once, before any execute, and calls no handleExited at all.
C1_FirstStepNoExit ==
  [][(state = NULL /\ lastCall'.op = "step") =>
       /\ BootstrapOrder(log')
       /\ \A i \in Positions(log') : log'[i][1] # "handleExited"]_vars

\* C1 amended: the first step() of a fresh machine calls init once, then
\* handleEntered once, before any execute; it calls handleExited only on
\* the initial state, only after an execute call that returned a registered
\* name, and it does so whenever execute returns one.
C1_FirstStep ==
  [][(state = NULL /\ lastCall'.op = "step") =>
       /\ BootstrapOrder(log')
       /\ \A i \in Positions(log') :
            log'[i][1] = "handleExited" =>
              /\ log'[i][2] = initialState
              /\ \E j \in 1..(i - 1) :
                   log'[j][1] = "execute" /\ log'[j][3] \in Keys
       /\ \A j \in Positions(log') :
            (log'[j][1] = "execute" /\ log'[j][3] \in Keys) =>
              \E i \in (j + 1)..Len(log') :
                log'[i] = Ev("handleExited", initialState, NULL)]_vars

\* A first step has bootstrapped and then, execute having returned a
\* registered name, has called handleExited on the initial state.
C1_Witness ==
  /\ lastCall.op = "step"
  /\ Len(log) >= 4
  /\ log[1] = Ev("init", initialState, NULL)
  /\ \E i \in Positions(log) : log[i][1] = "handleExited"

\* ----------------------------------------------------------------- C2
\* The calls the claim expects a transition t, running alone with the four
\* lifecycle callbacks, to make when it resumes from the await it is at.
C2_Expected(t, cur, inits) ==
  CASE t.pc = "preExit" -> <<Ev("handleExited", cur, NULL)>>
    [] t.pc = "handleExited" -> <<Ev("postExit", cur, NULL)>>
    [] t.pc = "postExit" ->
         <<Ev("state=", t.target, cur)>>
         \o (IF inits = "never" THEN <<Ev("init", t.target, NULL)>> ELSE <<>>)
         \o <<Ev("preEnter", t.target, NULL)>>
    [] t.pc = "preEnter" -> <<Ev("handleEntered", t.target, NULL)>>
    [] t.pc = "handleEntered" -> <<Ev("postEnter", t.target, NULL)>>
    [] t.pc = "postEnter" -> <<>>

\* C2: a transition to B with the four lifecycle callbacks, issued from A
\* with no other transition in flight, calls preExit, A.handleExited,
\* postExit, B.init (only if B was never initialized), preEnter,
\* B.handleEntered, postEnter in this order, each after the previous one
\* has completed, and state becomes B between postExit and B.init.
C2_TransitionOrder ==
  [][/\ (/\ lastCall'.op = "transition"
         /\ lastCall'.arg \in Keys
         /\ tasks = EmptyBag
         /\ state \in Keys \ {lastCall'.arg})
          => (log' = <<Ev("preExit", state, NULL)>> /\ state' = state)
     /\ \A t \in BagToSet(tasks) :
          (/\ lastCall'.op = "resume"
           /\ tasks = SetToBag({t})
           /\ t.alone /\ t.cbs
           /\ t.pc \in {"preExit", "handleExited", "postExit"} => state # t.target)
            => /\ log' = C2_Expected(t, state, initCalls[t.target])
               /\ state' = (IF t.pc = "postExit" THEN t.target ELSE state)]_vars

\* ----------------------------------------------------------------- C3
\* C3: when execute of the current state A returns the registered name B
\* during step(), that step() performs the A->B transition, calls
\* B.execute, and returns with state B.
C3_ChainedInStep ==
  [][lastCall'.op = "step" =>
       \A i \in Positions(log') :
         (/\ state \in Keys
          /\ log'[i] = Ev("execute", state, log'[i][3])
          /\ log'[i][3] \in Keys \ {state})
           => /\ state' = log'[i][3]
              /\ \E j \in (i + 1)..Len(log') :
                   log'[j] = Ev("state=", log'[i][3], log'[i][2])
              /\ \E j \in (i + 1)..Len(log') :
                   log'[j][1] = "execute" /\ log'[j][2] = log'[i][3]]_vars

C5_RoundTrip ==
  (/\ roundTrip.phase = "popped"
   /\ roundTrip.key \in Keys
   /\ tasks = EmptyBag)
    => (state = roundTrip.key /\ stateStack = roundTrip.stack)

\* ----------------------------------------------------------------- C6
\* C6: popTransition() on an empty stack throws, starts no transition,
\* emits nothing and changes neither state, stateStack nor transitioning.
C6_PopEmpty ==
  [][(lastCall'.op = "popTransition" /\ stateStack = <<>>)
       => /\ lastCall'.result = "throws"
          /\ log' = <<>>
          /\ state' = state
          /\ stateStack' = <<>>
          /\ transitioning' = transitioning
          /\ tasks' = tasks
          /\ handles' = handles]_vars

\* popTransition() has just thrown on a bootstrapped machine.
C6_Witness ==
  /\ lastCall = [op |-> "popTransition", arg |-> NULL, result |-> "throws"]
  /\ state \in Keys
  /\ stateStack = <<>>

\* ----------------------------------------------------------------- C7
\* C7: a pushAndWait handle taken at depth d resolves at most once, and
\* only in a popTransition that emits depth d; until then it stays
\* subscribed, whatever other depths are reported.
C7_DepthMatch ==
  [][\A h \in BagToSet(handles') :
       /\ h.resolved # "repeated"
       /\ h.resolved = "never" => h.listening
       /\ h.resolved = "once" => (h.resolvedBy = h.depth /\ ~h.listening)
       /\ (h.resolved = "once" /\ CopiesIn(h, handles') > CopiesIn(h, handles))
            => /\ lastCall'.op = "popTransition"
               /\ \E i \in Positions(log') :
                    log'[i] = Ev("emit", ToString(h.depth), NULL)]_vars

\* A handle taken at depth 0 heard the pop of a nested push (depth 1)
\* without resolving, and resolved on the pop back to depth 0.
C7_Witness ==
  \E h \in BagToSet(handles) :
    h.depth = 0 /\ h.heard /\ h.resolved = "once" /\ h.resolvedBy = 0

\* ----------------------------------------------------------------- C8
\* C8: a callback passed to nextStep during step N (from execute or from a
\* callback being drained) does not run in step N, runs once at the start
\* of step N+1 and never again.
C8_Deferred ==
  \A id \in 1..Len(cbInfo) :
    LET c == cbInfo[id]
    IN  (c.queued # "never" /\ c.during) =>
          /\ c.runs # "repeated"
          /\ c.runs = "once" => c.ranAfter = "once"
          /\ c.stepsSince # "never" => c.runs = "once"

\* ----------------------------------------------------------------- C9
\* C9: a state other than the bootstrapped one has init called at most
\* once, on its first entry through transition, and its initialized flag
\* is true from that entry on.
C9_SingleInit ==
  [][\A S \in Keys \ {initialState} :
       /\ initCalls'[S] # "repeated"
       /\ initialized'[S] <=> initCalls'[S] = "once"
       /\ initialized[S] => initialized'[S]
       /\ state' = S => initialized'[S]]_vars

\* S is entered a second time, from another state, and init is not called.
C9_Witness ==
  \E S \in Keys \ {initialState} :
    /\ lastCall.op = "resume"
    /\ state = S
    /\ initCalls[S] = "once"
    /\ log = <<Ev("state=", S, initialState), Ev("handleEntered", S, NULL)>>

\* ---------------------------------------------------------------- C10
\* C10: init of every registered state, the initial state included, is
\* called at most once, and before that state's first handleEntered.
C10_InitAtMostOnce ==
  [][\A k \in Keys :
       /\ initCalls'[k] # "repeated"
       /\ \A i \in Positions(log') :
            log'[i] = Ev("handleEntered", k, NULL) =>
              \/ initCalls[k] # "never"
              \/ \E j \in 1..(i - 1) : log'[j] = Ev("init", k, NULL)]_vars

\* ---------------------------------------------------------------- C11
\* C11: in every reachable state, whatever the initialState the machine
\* was constructed with and whatever step, transition, pushTransition,
\* popTransition and addStates calls were made, state is null or a key of
\* possibleStates.
C11_StateRegistered ==
  state = NULL \/ state \in possibleStates

\* ---------------------------------------------------------------- C12
\* The calls a transition makes on states and lifecycle callbacks, and its
\* assignment of state.
TransitionEvents ==
  {"preExit", "handleExited", "postExit", "state=", "init", "preEnter",
   "handleEntered", "postEnter"}

\* C12: a transition, pushTransition or popTransition call made while
\* transitioning is true and another transition's hooks are pending calls
\* no exit or enter hook and does not reassign state.
C12_NoNewTransition ==
  [][(/\ lastCall'.op \in {"transition", "pushTransition", "popTransition"}
      /\ transitioning
      /\ tasks # EmptyBag)
       => /\ state' = state
          /\ \A i \in Positions(log') : log'[i][1] \notin TransitionEvents]_vars

\* ---------------------------------------------------------------- C13
\* C13: the length of stateStack is the number of pushTransition calls
\* that started a transition to their target minus the number of
\* popTransition calls that did not throw: a push adds one entry exactly
\* when its transition starts, a pop that does not throw removes one, and
\* nothing else changes the length.
C13_StackAccounting ==
  [][/\ lastCall'.op \in {"pushTransition", "pushAndWait"} =>
          Len(stateStack') =
            Len(stateStack) + (IF lastCall'.result = "pending" THEN 1 ELSE 0)
     /\ lastCall'.op = "popTransition" =>
          Len(stateStack') =
            Len(stateStack) - (IF lastCall'.result = "throws" THEN 0 ELSE 1)
     /\ lastCall'.op \notin {"pushTransition", "pushAndWait", "popTransition"} =>
          Len(stateStack') = Len(stateStack)]_vars

\* ---------------------------------------------------------------- C14
\* C14: popTransition() on a non-empty stack whose top is a registered
\* key, called with no other transition in flight, emits 'popTransition'
\* only after its transition has completed: when the notification is
\* emitted the restored state is current, its handleEntered has been
\* called, no transition is pending and transitioning is false; no
\* pushAndWait promise resolves while a transition is in flight.
C14_EmitAfterTransition ==
  [][/\ \A i \in Positions(log') :
          (/\ log'[i][1] = "emit"
           /\ tasks = EmptyBag
           /\ stateStack # <<>>
           /\ stateStack[Len(stateStack)] \in possibleStates)
            => /\ state' = stateStack[Len(stateStack)]
               /\ \E j \in 1..(i - 1) :
                    log'[j] = Ev("handleEntered", state', NULL)
               /\ tasks' = EmptyBag
               /\ ~transitioning'
     /\ \A h \in BagToSet(handles') :
          (h.resolved = "once" /\ CopiesIn(h, handles') > CopiesIn(h, handles))
            => (tasks' = EmptyBag /\ ~transitioning')]_vars

\* ---------------------------------------------------------------- C15
\* C15: when execute of the current state returns an unregistered name
\* during step(), the outcome is that of transition with that name (no
\* hook called, state unchanged) and the step ends there, without calling
\* execute again.
C15_BadExecuteReturn ==
  [][lastCall'.op = "step" =>
       \A i \in Positions(log') :
         (log'[i][1] = "execute" /\ log'[i][3] \notin possibleStates \cup {NULL})
           => /\ state' = log'[i][2]
              /\ i = Len(log')
              /\ \A j \in (i + 1)..Len(log') : log'[j][1] # "execute"]_vars

\* ---------------------------------------------------------------- C16
\* C16: an error raised by a hook during a transition is an error outcome
\* for the caller of transition (its promise is rejected) and, when the
\* hook was called inside a step, for the caller of that step (step
\* throws).
C16_HookErrorPropagates ==
  [][(\E i \in Positions(log') : log'[i][1] = "throws") =>
       /\ lastCall'.op \in {"transition", "resume"} => lastCall'.result = "failed"
       /\ lastCall'.op = "step" => lastCall'.result = "throws"]_vars

\* ---------------------------------------------------------------- C17
\* C17: as long as a transition with a registered target has not completed
\* its last enter hook, transitioning is true and no step() calls execute,
\* whatever the interleaving and also when transitions overlap.
C17_FlagCoversTransition ==
  [][/\ tasks' # EmptyBag => transitioning'
     /\ (lastCall'.op = "step" /\ tasks # EmptyBag) =>
          \A i \in Positions(log') : log'[i][1] # "execute"]_vars

\* ---------------------------------------------------------------- C18
ExitAwaits == {"preExit", "handleExited", "postExit"}

WatchedTasks == {t \in BagToSet(tasks) : t.watched}

\* C18: if every hook that is started eventually completes without error,
\* a transition started with a registered target eventually assigns state
\* to its target and calls the target's handleEntered, and eventually
\* completes; it leaves the pending ones only by completing, whatever
\* transitions are started meanwhile; and whenever no transition is
\* pending, transitioning is false.
C18_TransitionCompletes ==
  /\ \A k \in Keys :
       (\E t \in WatchedTasks : t.target = k /\ t.pc \in ExitAwaits)
         ~> (/\ \E t \in WatchedTasks : t.target = k /\ t.pc = "handleEntered"
             /\ lastCall.op = "resume"
             /\ state = k
             /\ \E i \in Positions(log) :
                  /\ log[i][1] = "state=" /\ log[i][2] = k
                  /\ \E j \in (i + 1)..Len(log) :
                       log[j] = Ev("handleEntered", k, NULL))
  /\ (WatchedTasks # {}) ~> (WatchedTasks = {} /\ lastCall.result = "done")
  /\ [][(WatchedTasks # {} /\ WatchedTasks' = {}) =>
          (lastCall'.op = "resume" /\ lastCall'.result = "done")]_vars
  /\ [](tasks = EmptyBag => ~transitioning)

\* The followed transition, overlapped by a later one, has assigned state
\* to its target and called handleEntered, and the later one is pending.
C18_Witness ==
  \E t \in WatchedTasks :
    /\ t.pc = "handleEntered" /\ ~t.alone
    /\ state = t.target
    /\ lastCall.op = "resume"
    /\ Ev("handleEntered", t.target, NULL) \in {log[i] : i \in Positions(log)}
    /\ BagCardinality(tasks) > 1

\* ---------------------------------------------------------------- C19
IsCallbackRun(e) == e[1] = "callback"
CallbackRuns(l) == SelectSeq(l, IsCallbackRun)

\* C19: every step(), transitioning or not, runs the queued callbacks in
\* the order they were registered, after the bootstrap and before any
\* execute call, and has emptied the queue before execute is called: after
\* the step the queue holds nothing but what execute registered.
C19_FifoDrain ==
  [][lastCall'.op = "step" =>
       LET q == nextStepCallbacks
           runs == CallbackRuns(log')
       IN  /\ Len(runs) >= Len(q)
           /\ \A i \in 1..Len(q) : runs[i][2] = ToString(q[i])
           /\ \A i, j \in Positions(log') :
                /\ (log'[i][1] \in {"init", "handleEntered"}
                    /\ log'[j][1] = "callback") => i < j
                /\ (log'[i][1] = "callback" /\ log'[j][1] = "execute") => i < j
           /\ \A i \in 1..Len(nextStepCallbacks') :
                nextStepCallbacks'[i] > Len(cbInfo)
           /\ Len(cbInfo') > Len(cbInfo) =>
                nextStepCallbacks' = <<Len(cbInfo')>>]_vars

\* A step taken while a transition is in flight has run two or more queued
\* callbacks, called no execute and left the queue empty.
C19_Witness ==
  /\ lastCall.op = "step"
  /\ transitioning
  /\ tasks # EmptyBag
  /\ Len(CallbackRuns(log)) >= 2
  /\ \A i \in Positions(log) : log[i][1] # "execute"
  /\ nextStepCallbacks = <<>>

\* ---------------------------------------------------------------- C20
\* The one pending transition, started with nothing else in flight.
OnlyTask(b, k) ==
  /\ BagCardinality(b) = 1
  /\ \A t \in BagToSet(b) : t.target = k /\ t.alone

\* C20: nested push/pop is LIFO when every call is made after the previous
\* transition has completed.  From a registered state S with stack s, a
\* pushTransition to a registered T makes the stack s \o <<S>> and, once
\* its transition has completed, the state T; a popTransition makes the
\* stack all of s but its last element and, once its transition has
\* completed, the state that last element; nothing else touches the
\* stack.  By induction n pushes to S1..Sn from S0 give [S0..S(n-1)] and n
\* pops make the state S(n-1), ..., S0 and leave the stack empty.
C20_Lifo ==
  [][/\ (/\ lastCall'.op \in {"pushTransition", "pushAndWait"}
         /\ tasks = EmptyBag
         /\ state \in Keys
         /\ lastCall'.arg \in Keys)
          => /\ stateStack' = Append(stateStack, state)
             /\ OnlyTask(tasks', lastCall'.arg)
     /\ (/\ lastCall'.op = "popTransition"
         /\ tasks = EmptyBag
         /\ state \in Keys
         /\ stateStack # <<>>
         /\ stateStack[Len(stateStack)] \in Keys)
          => /\ stateStack' = SubSeq(stateStack, 1, Len(stateStack) - 1)
             /\ OnlyTask(tasks', stateStack[Len(stateStack)])
     /\ \A k \in Keys :
          (lastCall'.op = "resume" /\ OnlyTask(tasks, k))
            => /\ stateStack' = stateStack
               /\ tasks' = EmptyBag \/ OnlyTask(tasks', k)
               /\ tasks' = EmptyBag => (state' = k /\ ~transitioning')]_vars

\* Two levels deep: after a push from depth 1 and the pop that followed
\* it, both transitions completed, the state and the one-element stack
\* are those of before the inner push.
C20_Witness ==
  /\ roundTrip.phase = "popped"
  /\ Len(roundTrip.stack) = 1
  /\ roundTrip.stack[1] \in Keys
  /\ roundTrip.key \in Keys
  /\ tasks = EmptyBag
  /\ lastCall.result = "done"
  /\ state = roundTrip.key
  /\ stateStack = roundTrip.stack

\* ---------------------------------------------------------------- C21
\* C21: when the registered states A and B each return the other's name
\* from every execute call, a step() made in one of them never returns:
\* it goes on with the transition to the other state and that state's
\* execute inside the same call.
C21_StepNeverReturns ==
  [][(/\ lastCall'.op = "step"
      /\ state \in Keys
      /\ \E i \in Positions(log') :
           /\ log'[i] = Ev("execute", state, log'[i][3])
           /\ log'[i][3] \in Keys \ {state}
           /\ \A j \in 1..(i - 1) : log'[j][1] # "execute")
       => /\ lastCall'.result # "returned"
          /\ \E j \in Positions(log') :
               log'[j][1] = "execute" /\ log'[j][2] # state]_vars

\* ---------------------------------------------------------------- C22
\* C22: over every sequence and interleaving of calls, handleExited is
\* called only on the state entered last and not yet exited, at most once
\* per entry, and handleEntered is not called on a state while a different
\* entered state has not been exited.
C22_Balanced ==
  entered # "unbalanced"

\* ---------------------------------------------------------------- C23
\* C23: in every reachable state every element of stateStack is a
\* registered key, never null nor an unregistered name, also when
\* pushTransition or pushAndWait is called before the first step().
C23_StackRegistered ==
  \A i \in 1..Len(stateStack) : stateStack[i] \in possibleStates

====
